---------------------------- MODULE Spec2Model ----------------------------
(***************************************************************************)
(* Model of google.adk.runtime, google.adk.platform.time,                  *)
(* google.adk.platform.uuid (the provider registries) and of               *)
(* google.adk.integrations.temporal (activity_as_tool, TemporalModel).     *)
(***************************************************************************)
EXTENDS Integers, Sequences, FiniteSets, TLC

(***************************************************************************)
(* Bounds                                                                  *)
(***************************************************************************)
MaxProviderCalls == 2   \* calls served by the installed custom providers, in all
MaxClock == 2           \* ticks of the wall clock
MaxTools == 1           \* capabilities made by activity_as_tool
MaxWraps == 3           \* capabilities made when only wrapping is exercised

(***************************************************************************)
(* Provider registries                                                     *)
(***************************************************************************)
None == "None"

\* the modules that hold a `_time_provider` slot / an `_id_provider` slot
TimeModules == {"runtime", "platform.time"}
IdModules == {"runtime", "platform.uuid"}

\* time.time and `lambda: str(uuid.uuid4())`
DefaultTime == "time.time"
DefaultId == "uuid4"

\* providers a host may install
TimeProviders == {"tp1", "tp2"}
IdProviders == {"ip1", "ip2"}

\* strings uuid.uuid4() may produce
UUID4s == {"u1", "u2"}

VARIABLES
  time_provider,    \* [TimeModules -> provider]: each module's _time_provider
  id_provider,      \* [IdModules -> provider]: each module's _id_provider
  provider_calls,   \* state of each custom provider: calls served so far
  wall_clock,       \* the real clock read by time.time
  reg_op,           \* the registry operation just performed and its outcome
  last_set_time,    \* history: provider of the last set on the slot, None after reset
  last_set_id,      \* history: same for the identifier slots
  other_touched     \* history: runtime's other slot was set since this slot's set

regvars == <<time_provider, id_provider, provider_calls, wall_clock, reg_op,
             last_set_time, last_set_id, other_touched>>

\* what a call p() returns in the current state
\* a read that adds the wall clock to what the installed provider answers
CallTimeProvider_AddsWallClock(p) ==
  IF p = DefaultTime THEN <<"wall", wall_clock>>
  ELSE <<p, provider_calls[p] + wall_clock>>

CallTimeProvider(p) ==
  IF p = DefaultTime THEN <<"wall", wall_clock>> ELSE <<p, provider_calls[p]>>

CallIdProvider(p, u) ==
  IF p = DefaultId THEN <<"uuid4", u>> ELSE <<p, provider_calls[p]>>

\* the provider's own state after serving one call
ProviderServed(p) ==
  IF p \in TimeProviders \cup IdProviders
  THEN [provider_calls EXCEPT ![p] = @ + 1]
  ELSE provider_calls

CanCall(p) ==
  p \in TimeProviders \cup IdProviders =>
    provider_calls["tp1"] + provider_calls["tp2"]
      + provider_calls["ip1"] + provider_calls["ip2"] < MaxProviderCalls

\* the modules that define reset_time_provider / reset_id_provider
DefinesReset == {"platform.time", "platform.uuid"}

RegOp(op, m, p, ret, exc) ==
  [op |-> op, module |-> m, provider |-> p, ret |-> ret, exc |-> exc]

RegInit ==
  /\ time_provider = [m \in TimeModules |-> DefaultTime]
  /\ id_provider = [m \in IdModules |-> DefaultId]
  /\ provider_calls = [p \in TimeProviders \cup IdProviders |-> 0]
  /\ wall_clock = 0
  /\ reg_op = RegOp("import", None, None, None, None)
  /\ last_set_time = [m \in TimeModules |-> None]
  /\ last_set_id = [m \in IdModules |-> None]
  /\ other_touched = [k \in {"time", "id"} |-> FALSE]

set_time_provider(m, provider) ==
  /\ time_provider' = [time_provider EXCEPT ![m] = provider]
  /\ reg_op' = RegOp("set_time_provider", m, provider, None, None)
  /\ last_set_time' = [last_set_time EXCEPT ![m] = provider]
  /\ other_touched' = IF m = "runtime"
                      THEN [time |-> FALSE, id |-> TRUE]
                      ELSE other_touched
  /\ UNCHANGED <<id_provider, provider_calls, wall_clock, last_set_id>>

\* a set_id_provider that assigns the module's _time_provider global
set_id_provider_WrongGlobal(m, provider) ==
  /\ IF m \in TimeModules
     THEN /\ time_provider' = [time_provider EXCEPT ![m] = provider]
          /\ UNCHANGED id_provider
     ELSE /\ id_provider' = [id_provider EXCEPT ![m] = provider]
          /\ UNCHANGED time_provider
  /\ reg_op' = RegOp("set_id_provider", m, provider, None, None)
  /\ last_set_id' = [last_set_id EXCEPT ![m] = provider]
  /\ other_touched' = IF m = "runtime"
                      THEN [time |-> TRUE, id |-> FALSE]
                      ELSE other_touched
  /\ UNCHANGED <<provider_calls, wall_clock, last_set_time>>

set_id_provider(m, provider) ==
  /\ id_provider' = [id_provider EXCEPT ![m] = provider]
  /\ reg_op' = RegOp("set_id_provider", m, provider, None, None)
  /\ last_set_id' = [last_set_id EXCEPT ![m] = provider]
  /\ other_touched' = IF m = "runtime"
                      THEN [time |-> TRUE, id |-> FALSE]
                      ELSE other_touched
  /\ UNCHANGED <<time_provider, provider_calls, wall_clock, last_set_time>>

\* google.adk.runtime has no attribute reset_time_provider: the call raises
\* AttributeError and the slot keeps its provider
reset_time_provider(m) ==
  /\ IF m \in DefinesReset
     THEN /\ time_provider' = [time_provider EXCEPT ![m] = DefaultTime]
          /\ reg_op' = RegOp("reset_time_provider", m, None, None, None)
          /\ last_set_time' = [last_set_time EXCEPT ![m] = None]
     ELSE /\ reg_op' = RegOp("reset_time_provider", m, None, None, "AttributeError")
          /\ UNCHANGED <<time_provider, last_set_time>>
  /\ UNCHANGED <<id_provider, provider_calls, wall_clock, last_set_id, other_touched>>

reset_id_provider(m) ==
  /\ IF m \in DefinesReset
     THEN /\ id_provider' = [id_provider EXCEPT ![m] = DefaultId]
          /\ reg_op' = RegOp("reset_id_provider", m, None, None, None)
          /\ last_set_id' = [last_set_id EXCEPT ![m] = None]
     ELSE /\ reg_op' = RegOp("reset_id_provider", m, None, None, "AttributeError")
          /\ UNCHANGED <<id_provider, last_set_id>>
  /\ UNCHANGED <<time_provider, provider_calls, wall_clock, last_set_time, other_touched>>

get_time(m) ==
  /\ CanCall(time_provider[m])
  /\ reg_op' = RegOp("get_time", m, time_provider[m],
                     CallTimeProvider(time_provider[m]), None)
  /\ provider_calls' = ProviderServed(time_provider[m])
  /\ UNCHANGED <<time_provider, id_provider, wall_clock, last_set_time,
                 last_set_id, other_touched>>

new_uuid(m) ==
  /\ CanCall(id_provider[m])
  /\ \E u \in UUID4s :
       reg_op' = RegOp("new_uuid", m, id_provider[m],
                       CallIdProvider(id_provider[m], IF id_provider[m] = DefaultId THEN u ELSE None), None)
  /\ provider_calls' = ProviderServed(id_provider[m])
  /\ UNCHANGED <<time_provider, id_provider, wall_clock, last_set_time,
                 last_set_id, other_touched>>

\* the real clock advances
Tick ==
  /\ wall_clock < MaxClock
  /\ wall_clock' = wall_clock + 1
  /\ reg_op' = RegOp("tick", None, None, None, None)
  /\ UNCHANGED <<time_provider, id_provider, provider_calls, last_set_time,
                 last_set_id, other_touched>>


(***************************************************************************)
(* google.adk.integrations.temporal                                        *)
(***************************************************************************)

\* the tasks that invoke capabilities and models
Callers == {"c1", "c2"}

\* units of work handed to activity_as_tool, and their declared parameters
ToolActivities == {"fake_activity", "get_weather"}
Parameters(activity_def) == <<"a", "b">>

\* an attribute the object does not have
Absent == "Absent"
\* inspect.signature(activity_def) raises
Uninspectable == "Uninspectable"

\* every callable a host may hand to activity_as_tool: the two functions
\* above, a builtin (no __annotations__, no inspectable signature) and a
\* callable object that has a `name` attribute but no __name__
Units == ToolActivities \cup {"builtin_unit", "partial_unit"}

\* what Python finds on the callable
UnitAttrs(activity_def) ==
  CASE activity_def = "fake_activity" ->
         [fn_name |-> "fake_activity", name |-> "fake_activity_name",
          doc |-> "My Docstring.", annotations |-> "arg: str -> str",
          signature |-> "(arg: str) -> str"]
    [] activity_def = "get_weather" ->
         [fn_name |-> "get_weather", name |-> Absent,
          doc |-> "Activity that gets weather.", annotations |-> "city: str -> str",
          signature |-> "(city: str) -> str"]
    [] activity_def = "builtin_unit" ->
         [fn_name |-> "builtin_unit", name |-> Absent,
          doc |-> "Builtin doc.", annotations |-> Absent,
          signature |-> Uninspectable]
    [] activity_def = "partial_unit" ->
         [fn_name |-> Absent, name |-> "partial_name",
          doc |-> None, annotations |-> Absent,
          signature |-> "(city)"]

\* tool_wrapper's own metadata, before anything is copied onto it
WrapperAnnotations == "return: Any"
WrapperSignature == "(*args, **kwargs) -> Any"

\* the activity_as_tool calls of the host: a unit of work and keyword options
WrapInputs == {<<"fake_activity", [start_to_close_timeout |-> 100]>>,
               <<"get_weather", [schedule_to_close_timeout |-> 50]>>}

\* arguments a caller passes to a capability: positional lists, and keyword
\* arguments as the ordered pairs of a dict
PositionalInputs == {<<>>, <<"v2">>, <<"v1", "v2">>}
KeywordInputs == {<<>>, <<<<"b", "v2">>>>,
                  <<<<"a", "v1">>, <<"b", "v2">>>>,
                  <<<<"b", "v2">>, <<"a", "v1">>>>}

\* what the channel may answer
ToolResults == {"mock_result", "other_result"}
ResponseLists == {<<>>, <<"R1", "R2">>, <<"R2", "R1", "R2">>}
ChannelErrors == {"ActivityError", "TimeoutError"}

\* LlmRequest objects of the callers and the model each was created with
RequestIds == {"r_unset", "r_empty", "r_x"}

\* TemporalModel instances of the host
ModelIds == {"m_a", "m_b", "m_empty"}
NotGiven == "NotGiven"

\* worker tasks that execute generate_content_activity, and the model field
\* of the requests they are handed
Workers == {"w1", "w2"}
ActivityRequestModels == {None, "", "x", "a"}

VARIABLES
  tools,      \* the tool_wrapper functions made so far: closure cells and metadata
  wrap_op,    \* the activity_as_tool call just made and its outcome
  models,     \* [ModelIds -> TemporalModel instance]
  requests,   \* [RequestIds -> LlmRequest]: the request objects' fields
  frames,     \* [Callers -> the invocation the caller is running]
  calls,      \* [Callers -> the execute_activity calls made by that invocation]

  activity_runs  \* [Workers -> the generate_content_activity execution of that worker]

tempvars == <<tools, wrap_op, models, requests, frames, calls>>
actvars == <<activity_runs>>

\* one logical run executed twice: the original execution and its replay
VARIABLES
  replay
replayvars == <<replay>>
vars == <<regvars, tempvars, actvars, replayvars>>

\* Python truth value of a model name
Falsy(model) == model \in {None, ""}

\* list(kwargs.values())
RECURSIVE KwargsValues(_)
KwargsValues(kwargs) ==
  IF kwargs = <<>> THEN <<>>
  ELSE <<kwargs[1][2]>> \o KwargsValues(Tail(kwargs))

\* the keyword values placed before the positional arguments
FlattenArgs_KeywordsFirst(args, kwargs) ==
  IF kwargs # <<>> THEN KwargsValues(kwargs) \o args ELSE args

\* args=[args]: the tuple of positionals passed as one argument
FlattenArgs_Nested(args, kwargs) ==
  IF kwargs # <<>> THEN args \o KwargsValues(kwargs) ELSE <<args>>

\* args=list(args) + list(kwargs.values()) if kwargs else list(args)
FlattenArgs(args, kwargs) ==
  IF kwargs # <<>> THEN args \o KwargsValues(kwargs) ELSE args

\* a call on workflow.execute_activity, as the channel sees it
ActivityCall(activity, args, options) ==
  [activity |-> activity, args |-> args, options |-> options,
   status |-> "pending", outcome |-> None]

IdleFrame ==
  [pc |-> "idle", kind |-> None, callee |-> None, args |-> <<>>, kwargs |-> <<>>,
   request |-> None, stream |-> FALSE, ret |-> None, exc |-> None,
   responses |-> <<>>, yielded |-> <<>>]

\* a caller may start a new invocation when it runs none
Free(c) == frames[c].pc \in {"idle", "returned", "raised", "completed"}

\* TemporalModel.__init__: activity_def defaults to generate_content_activity
TemporalModel(model_name, activity_def, activity_options) ==
  [model |-> model_name,
   activity_def |-> IF activity_def = NotGiven
                    THEN "generate_content_activity" ELSE activity_def,
   activity_options |-> activity_options]

TempInit ==
  /\ tools = <<>>
  /\ wrap_op = [activity_def |-> None, exc |-> None]
  /\ models = [m \in ModelIds |->
       CASE m = "m_a" -> TemporalModel("a", NotGiven, [start_to_close_timeout |-> 100])
         [] m = "m_b" -> TemporalModel("b", "mock_activity_def", [schedule_to_close_timeout |-> 50])
         [] m = "m_empty" -> TemporalModel("", NotGiven, [start_to_close_timeout |-> 100])]
  /\ requests = [r \in RequestIds |->
       [model |-> CASE r = "r_unset" -> None [] r = "r_empty" -> "" [] r = "r_x" -> "x",
        prompt |-> "hi"]]
  /\ frames = [c \in Callers |-> IdleFrame]
  /\ calls = [c \in Callers |-> <<>>]

IdleRun ==
  [pc |-> "idle", request_model |-> None, llm |-> None, remaining |-> <<>>,
   produced |-> <<>>, collected |-> <<>>, ret |-> None, exc |-> None]

ActInit == activity_runs = [w \in Workers |-> IdleRun]

\* the registries a host can install into and a run can read through
Registries == {"runtime", "platform"}

TimeModuleOf(g) == IF g = "runtime" THEN "runtime" ELSE "platform.time"

IdModuleOf(g) == IF g = "runtime" THEN "runtime" ELSE "platform.uuid"

\* the sequences of registry reads a logical run makes
Scripts == {<<"get_time">>, <<"get_time", "new_uuid">>, <<"new_uuid", "get_time">>,
            <<"get_time", "get_time">>, <<"new_uuid", "new_uuid">>}

ReplayInit ==
  replay = [phase |-> "boot", installed |-> None, reads |-> None,
            script |-> <<>>, pos |-> 1, first |-> <<>>, second |-> <<>>,
            restarted_at |-> 0]

Init == RegInit /\ TempInit /\ ActInit /\ ReplayInit

RegNext ==
  \/ \E m \in TimeModules, p \in TimeProviders \cup {DefaultTime} : set_time_provider(m, p)
  \/ \E m \in IdModules, p \in IdProviders : set_id_provider(m, p)
  \/ \E m \in TimeModules : reset_time_provider(m)
  \/ \E m \in IdModules : reset_id_provider(m)
  \/ \E m \in TimeModules : get_time(m)
  \/ \E m \in IdModules : new_uuid(m)
  \/ Tick

(***************************************************************************)
(* A logical run and its replay                                            *)
(***************************************************************************)

\* runtime.set_time_provider(lambda: workflow.now().timestamp())
install_time_provider(g, p) ==
  /\ replay.phase = "boot"
  /\ set_time_provider(TimeModuleOf(g), p)
  /\ replay' = [replay EXCEPT !.phase = "time_set", !.installed = g]

\* runtime.set_id_provider(lambda: str(workflow.uuid4())); the run that
\* follows reads through registry `reads`
install_id_provider(p, reads, script) ==
  /\ replay.phase = "time_set"
  /\ set_id_provider(IdModuleOf(replay.installed), p)
  /\ replay' = [replay EXCEPT !.phase = "run1", !.reads = reads,
                              !.script = script, !.pos = 1]

\* the run's next get_time() / new_uuid()
run_read ==
  /\ replay.phase \in {"run1", "run2"}
  /\ replay.pos <= Len(replay.script)
  /\ IF replay.script[replay.pos] = "get_time"
     THEN get_time(TimeModuleOf(replay.reads))
     ELSE new_uuid(IdModuleOf(replay.reads))
  /\ replay' = IF replay.phase = "run1"
               THEN [replay EXCEPT !.pos = @ + 1, !.first = Append(@, reg_op'.ret)]
               ELSE [replay EXCEPT !.pos = @ + 1, !.second = Append(@, reg_op'.ret)]

\* the run is executed again from its start; the host's providers answer
\* from the recorded history, so each starts over
replay_restart ==
  /\ replay.phase = "run1"
  /\ replay.pos > Len(replay.script)
  /\ provider_calls' = [p \in DOMAIN provider_calls |-> 0]
  /\ reg_op' = RegOp("replay", None, None, None, None)
  /\ replay' = [replay EXCEPT !.phase = "run2", !.pos = 1,
                              !.restarted_at = wall_clock]
  /\ UNCHANGED <<time_provider, id_provider, wall_clock, last_set_time,
                 last_set_id, other_touched>>

run_end ==
  /\ replay.phase = "run2"
  /\ replay.pos > Len(replay.script)
  /\ replay' = [replay EXCEPT !.phase = "done"]
  /\ UNCHANGED regvars

ReplayNext ==
  \/ \E g \in Registries, p \in TimeProviders : install_time_provider(g, p)
  \/ \E p \in IdProviders, g \in Registries, script \in Scripts :
        install_id_provider(p, g, script)
  \/ run_read
  \/ replay_restart
  \/ run_end
  \/ Tick /\ UNCHANGED replayvars

SpecReplay == Init /\ [][ReplayNext /\ UNCHANGED <<tempvars, actvars>>]_vars

\* C16: when the host installed deterministic providers before the run's
\* first read, in the registry the run reads through, the replay observes
\* the values the original execution observed, read for read, and every
\* value is one the installed providers produced.
C16_ReplayObservesSameValues ==
  (replay.phase \in {"run2", "done"} /\ replay.reads = replay.installed) =>
    /\ replay.second = SubSeq(replay.first, 1, Len(replay.second))
    /\ replay.phase = "done" => replay.second = replay.first
    /\ \A i \in 1..Len(replay.first) :
         replay.first[i][1] \in
           {time_provider[TimeModuleOf(replay.reads)],
            id_provider[IdModuleOf(replay.reads)]} \ {DefaultTime, DefaultId}

\* a run of get_time(), new_uuid() was replayed after the wall clock moved
\* and observed the same two values
C16_Witness ==
  /\ replay.phase = "done" /\ replay.reads = replay.installed
  /\ replay.script = <<"get_time", "new_uuid">>
  /\ wall_clock > replay.restarted_at
  /\ replay.first = <<<<"tp1", 0>>, <<"ip1", 0>>>>
  /\ replay.second = replay.first

SpecRegistry == Init /\ [][RegNext /\ UNCHANGED <<tempvars, actvars, replayvars>>]_vars

(***************************************************************************)
(* Claims about the provider registries                                    *)
(***************************************************************************)

\* C1: once set_time_provider(p) (set_id_provider(p)) ran on a module, every
\* get_time() (new_uuid()) of that module returns what p() produces at that
\* moment, until the next set or reset of that same slot, whatever was done
\* to the other slot meanwhile.
C1_InstalledProviderServesReads ==
  [][ /\ \A m \in TimeModules :
           (reg_op'.op = "get_time" /\ reg_op'.module = m /\ last_set_time[m] # None)
             => reg_op'.ret = CallTimeProvider(last_set_time[m])
      /\ \A m \in IdModules :
           (reg_op'.op = "new_uuid" /\ reg_op'.module = m /\ last_set_id[m] # None)
             => reg_op'.ret = CallIdProvider(last_set_id[m], None) ]_vars

\* the second read in a row served by tp1 through google.adk.runtime, the
\* identifier slot of that module having been set after tp1 was installed
C1_Witness ==
  /\ reg_op.op = "get_time" /\ reg_op.module = "runtime"
  /\ last_set_time["runtime"] = "tp1"
  /\ other_touched.time /\ id_provider["runtime"] = "ip2"
  /\ reg_op.ret = <<"tp1", 1>>

\* C2: a call of reset_time_provider() (reset_id_provider()) on any registry
\* module, google.adk.runtime included, leaves the slot holding the built-in
\* default provider.
C2_ResetRestoresDefault ==
  /\ reg_op.op = "reset_time_provider"
       => time_provider[reg_op.module] = DefaultTime
  /\ reg_op.op = "reset_id_provider"
       => id_provider[reg_op.module] = DefaultId

\* C3: a read that follows an installation is served by the installed
\* provider, through whichever module the read is made.
C3_OneIndirectionPoint ==
  [][ /\ (reg_op.op = "set_time_provider" /\ reg_op'.op = "get_time")
           => reg_op'.provider = reg_op.provider
      /\ (reg_op.op = "set_id_provider" /\ reg_op'.op = "new_uuid")
           => reg_op'.provider = reg_op.provider ]_vars

(***************************************************************************)
(* activity_as_tool and the tool_wrapper it returns                        *)
(***************************************************************************)

\* the function's own name preferred to its `name` attribute
ToolName_FunctionNameFirst(unit) ==
  IF unit.fn_name # Absent THEN unit.fn_name ELSE unit.name

\* tool_wrapper.__name__ = getattr(activity_def, "name", activity_def.__name__)
ToolName(unit) == IF unit.name # Absent THEN unit.name ELSE unit.fn_name

\* if hasattr(activity_def, "__annotations__"): copy them
ToolAnnotations(unit) ==
  IF unit.annotations # Absent THEN unit.annotations ELSE WrapperAnnotations

\* try: tool_wrapper.__signature__ = inspect.signature(activity_def)
\* except Exception: pass
ToolSignature(unit) ==
  IF unit.signature # Uninspectable THEN unit.signature ELSE WrapperSignature

\* activity_as_tool(activity_def, **activity_options): the returned function
\* holds the two values it was made with and the metadata copied onto it.
\* The default of getattr, activity_def.__name__, is evaluated before getattr
\* is called: a callable without __name__ ends the call with AttributeError.
activity_as_tool(activity_def, activity_options) ==
  /\ LET unit == UnitAttrs(activity_def) IN
       IF unit.fn_name = Absent
       THEN /\ wrap_op' = [activity_def |-> activity_def, exc |-> "AttributeError"]
            /\ UNCHANGED tools
       ELSE /\ wrap_op' = [activity_def |-> activity_def, exc |-> None]
            /\ tools' = Append(tools,
                 [activity_def |-> activity_def,
                  activity_options |-> activity_options,
                  name |-> ToolName(unit),
                  doc |-> unit.doc,
                  annotations |-> ToolAnnotations(unit),
                  signature |-> ToolSignature(unit)])
  /\ UNCHANGED <<models, requests, frames, calls>>

\* keyword options of the wrapping calls
WrapOptions == {[start_to_close_timeout |-> 100], [schedule_to_close_timeout |-> 50]}

WrapNext ==
  \E u \in Units, o \in WrapOptions :
    Len(tools) < MaxWraps /\ activity_as_tool(u, o)

SpecWrap == Init /\ [][WrapNext /\ UNCHANGED <<regvars, actvars, replayvars>>]_vars

\* tool_wrapper(*args, **kwargs) up to its await: one execute_activity call
tool_wrapper(c, t, args, kwargs) ==
  /\ Free(c)
  /\ frames' = [frames EXCEPT ![c] =
       [IdleFrame EXCEPT !.pc = "awaiting", !.kind = "tool", !.callee = t,
                         !.args = args, !.kwargs = kwargs]]
  /\ calls' = [calls EXCEPT ![c] =
       <<ActivityCall(tools[t].activity_def, FlattenArgs(args, kwargs),
                      tools[t].activity_options)>>]
  /\ UNCHANGED <<tools, wrap_op, models, requests>>

\* a wrapper that catches the channel's failure and returns None
tool_wrapper_resume_Suppress(c) ==
  /\ frames[c].kind = "tool" /\ frames[c].pc = "awaiting"
  /\ calls[c][Len(calls[c])].status # "pending"
  /\ LET call == calls[c][Len(calls[c])] IN
       frames' = [frames EXCEPT ![c] =
         IF call.status = "returned"
         THEN [@ EXCEPT !.pc = "returned", !.ret = call.outcome]
         ELSE [@ EXCEPT !.pc = "returned"]]
  /\ UNCHANGED <<tools, wrap_op, models, requests, calls>>

\* `return await ...`: the awaited call's result is returned, its failure raised
tool_wrapper_resume(c) ==
  /\ frames[c].kind = "tool" /\ frames[c].pc = "awaiting"
  /\ calls[c][Len(calls[c])].status # "pending"
  /\ LET call == calls[c][Len(calls[c])] IN
       frames' = [frames EXCEPT ![c] =
         IF call.status = "returned"
         THEN [@ EXCEPT !.pc = "returned", !.ret = call.outcome]
         ELSE [@ EXCEPT !.pc = "raised", !.exc = call.outcome]]
  /\ UNCHANGED <<tools, wrap_op, models, requests, calls>>

(***************************************************************************)
(* The remote-execution channel, workflow.execute_activity                 *)
(***************************************************************************)

\* a check `request.model is None` in place of `not request.model`
generate_content_activity_raises_IsNone(request_model) == request_model = None

\* generate_content_activity(request): refuses a request without a model
generate_content_activity_raises(request_model) == Falsy(request_model)

Pending(c) ==
  /\ calls[c] # <<>>
  /\ calls[c][Len(calls[c])].status = "pending"

\* results the activity of call `call` can produce
ActivityResults(call) ==
  IF call.activity \in ToolActivities THEN ToolResults
  ELSE IF /\ call.activity = "generate_content_activity"
          /\ generate_content_activity_raises(call.args[1].model)
       THEN {}
       ELSE ResponseLists

\* failures the call can end with: the channel's own and the activity's
ActivityFailures(call) ==
  IF /\ call.activity = "generate_content_activity"
     /\ generate_content_activity_raises(call.args[1].model)
  THEN ChannelErrors \cup {"ValueError"}
  ELSE ChannelErrors

execute_activity_returns(c) ==
  /\ Pending(c)
  /\ \E result \in ActivityResults(calls[c][Len(calls[c])]) :
       calls' = [calls EXCEPT ![c][Len(calls[c])] =
                   [@ EXCEPT !.status = "returned", !.outcome = result]]
  /\ UNCHANGED <<tools, wrap_op, models, requests, frames>>

execute_activity_raises(c) ==
  /\ Pending(c)
  /\ \E failure \in ActivityFailures(calls[c][Len(calls[c])]) :
       calls' = [calls EXCEPT ![c][Len(calls[c])] =
                   [@ EXCEPT !.status = "raised", !.outcome = failure]]
  /\ UNCHANGED <<tools, wrap_op, models, requests, frames>>

(***************************************************************************)
(* generate_content_activity, executed by a worker                         *)
(***************************************************************************)

RunFree(w) == activity_runs[w].pc \in {"idle", "returned", "raised"}

\* the call up to the first fragment: the model check, then
\* LLMRegistry.new_llm(request.model) and llm.generate_content_async(request);
\* `output` is what that backend is going to produce
generate_content_activity(w, request_model, output) ==
  /\ RunFree(w)
  /\ activity_runs' = [activity_runs EXCEPT ![w] =
       IF generate_content_activity_raises(request_model)
       THEN [IdleRun EXCEPT !.pc = "raised", !.request_model = request_model,
                            !.exc = "ValueError"]
       ELSE [IdleRun EXCEPT !.pc = "collecting", !.request_model = request_model,
                            !.llm = request_model, !.remaining = output]]
  /\ UNCHANGED <<regvars, tempvars>>

\* one turn of the comprehension: the backend yields a response, which is
\* appended to the list being built
collect_response(w) ==
  /\ activity_runs[w].pc = "collecting"
  /\ activity_runs[w].remaining # <<>>
  /\ activity_runs' = [activity_runs EXCEPT ![w] =
       [@ EXCEPT !.remaining = Tail(@),
                 !.produced = Append(@, Head(activity_runs[w].remaining)),
                 !.collected = Append(@, Head(activity_runs[w].remaining))]]
  /\ UNCHANGED <<regvars, tempvars>>

\* the backend's generator is exhausted: the list is returned
return_responses(w) ==
  /\ activity_runs[w].pc = "collecting"
  /\ activity_runs[w].remaining = <<>>
  /\ activity_runs' = [activity_runs EXCEPT ![w] =
       [@ EXCEPT !.pc = "returned", !.ret = activity_runs[w].collected]]
  /\ UNCHANGED <<regvars, tempvars>>

\* the backend raises instead of yielding: the failure leaves the activity
backend_raises(w) ==
  /\ activity_runs[w].pc = "collecting"
  /\ activity_runs' = [activity_runs EXCEPT ![w] =
       [@ EXCEPT !.pc = "raised", !.exc = "BackendError"]]
  /\ UNCHANGED <<regvars, tempvars>>

\* TemporalModel.default_activities()
default_activities == <<"generate_content_activity">>

ActivityNext ==
  \/ \E w \in Workers, m \in ActivityRequestModels, output \in ResponseLists :
        generate_content_activity(w, m, output)
  \/ \E w \in Workers : collect_response(w)
  \/ \E w \in Workers : return_responses(w)
  \/ \E w \in Workers : backend_raises(w)

SpecActivity == Init /\ [][ActivityNext /\ UNCHANGED replayvars]_vars

ToolNext ==
  \/ \E w \in WrapInputs : Len(tools) < MaxTools /\ activity_as_tool(w[1], w[2])
  \/ \E c \in Callers, t \in 1..Len(tools), args \in PositionalInputs,
        kwargs \in KeywordInputs : tool_wrapper(c, t, args, kwargs)
  \/ \E c \in Callers : tool_wrapper_resume(c)
  \/ \E c \in Callers : execute_activity_returns(c)
  \/ \E c \in Callers : execute_activity_raises(c)

SpecTool == Init /\ [][ToolNext /\ UNCHANGED <<regvars, actvars, replayvars>>]_vars

(***************************************************************************)
(* TemporalModel.generate_content_async                                    *)
(***************************************************************************)

\* calling the async generator function makes the generator; no code of the
\* body runs before the consumer's first __anext__
generate_content_async(c, m, r, stream) ==
  /\ Free(c)
  /\ frames' = [frames EXCEPT ![c] =
       [IdleFrame EXCEPT !.pc = "created", !.kind = "gen", !.callee = m,
                         !.request = r, !.stream = stream]]
  /\ calls' = [calls EXCEPT ![c] = <<>>]
  /\ UNCHANGED <<tools, wrap_op, models, requests>>

\* an unconditional `llm_request.model = self.model`
FilledModel_Always(request_model, self_model) == self_model

\* the request's model after `if not llm_request.model: llm_request.model = self.model`
FilledModel(request_model, self_model) ==
  IF Falsy(request_model) THEN self_model ELSE request_model

\* a body that fills the model on a copy of the request and dispatches the copy
generate_content_async_start_Copy(c) ==
  /\ frames[c].kind = "gen" /\ frames[c].pc = "created"
  /\ LET self == models[frames[c].callee]
         r == frames[c].request
         filled == FilledModel(requests[r].model, self.model)
     IN calls' = [calls EXCEPT ![c] = Append(@,
             ActivityCall(self.activity_def,
                          <<[request |-> r, model |-> filled]>>,
                          self.activity_options))]
  /\ frames' = [frames EXCEPT ![c].pc = "awaiting"]
  /\ UNCHANGED <<tools, wrap_op, models, requests>>

\* first __anext__: the body up to `await workflow.execute_activity(...)`
generate_content_async_start(c) ==
  /\ frames[c].kind = "gen" /\ frames[c].pc = "created"
  /\ LET self == models[frames[c].callee]
         r == frames[c].request
         filled == FilledModel(requests[r].model, self.model)
     IN /\ requests' = [requests EXCEPT ![r].model = filled]
        /\ calls' = [calls EXCEPT ![c] = Append(@,
             ActivityCall(self.activity_def,
                          <<[request |-> r, model |-> filled]>>,
                          self.activity_options))]
  /\ frames' = [frames EXCEPT ![c].pc = "awaiting"]
  /\ UNCHANGED <<tools, wrap_op, models>>

\* a generator that keeps the awaited list on the instance: it resumes with
\* the list of whichever call on that instance was answered
generate_content_async_resume_OnInstance(c) ==
  /\ frames[c].kind = "gen" /\ frames[c].pc = "awaiting"
  /\ calls[c][Len(calls[c])].status # "pending"
  /\ \E d \in Callers :
       /\ frames[d].kind = "gen" /\ frames[d].callee = frames[c].callee
       /\ calls[d] # <<>> /\ calls[d][Len(calls[d])].status # "pending"
       /\ LET call == calls[d][Len(calls[d])] IN
            frames' = [frames EXCEPT ![c] =
              IF call.status = "raised"
              THEN [@ EXCEPT !.pc = "raised", !.exc = call.outcome]
              ELSE IF call.outcome = <<>>
              THEN [@ EXCEPT !.pc = "completed", !.responses = call.outcome]
              ELSE [@ EXCEPT !.pc = "yielded", !.responses = call.outcome,
                             !.yielded = <<call.outcome[1]>>]]
  /\ UNCHANGED <<tools, wrap_op, models, requests, calls>>

\* a generator that answers a failed dispatch with a second dispatch
generate_content_async_resume_Retry(c) ==
  /\ frames[c].kind = "gen" /\ frames[c].pc = "awaiting"
  /\ calls[c][Len(calls[c])].status # "pending"
  /\ LET call == calls[c][Len(calls[c])] IN
       IF call.status = "raised" /\ Len(calls[c]) < 2
       THEN /\ calls' = [calls EXCEPT ![c] = Append(@,
                 [call EXCEPT !.status = "pending", !.outcome = None])]
            /\ UNCHANGED frames
       ELSE /\ frames' = [frames EXCEPT ![c] =
                 IF call.status = "raised"
                 THEN [@ EXCEPT !.pc = "raised", !.exc = call.outcome]
                 ELSE IF call.outcome = <<>>
                 THEN [@ EXCEPT !.pc = "completed", !.responses = call.outcome]
                 ELSE [@ EXCEPT !.pc = "yielded", !.responses = call.outcome,
                                !.yielded = <<call.outcome[1]>>]]
            /\ UNCHANGED calls
  /\ UNCHANGED <<tools, wrap_op, models, requests>>

\* the await ends: a failure leaves the generator, a result is bound to
\* `responses` and the for loop runs to its first yield, or off its end
generate_content_async_resume(c) ==
  /\ frames[c].kind = "gen" /\ frames[c].pc = "awaiting"
  /\ calls[c][Len(calls[c])].status # "pending"
  /\ LET call == calls[c][Len(calls[c])] IN
       frames' = [frames EXCEPT ![c] =
         IF call.status = "raised"
         THEN [@ EXCEPT !.pc = "raised", !.exc = call.outcome]
         ELSE IF call.outcome = <<>>
         THEN [@ EXCEPT !.pc = "completed", !.responses = call.outcome]
         ELSE [@ EXCEPT !.pc = "yielded", !.responses = call.outcome,
                        !.yielded = <<call.outcome[1]>>]]
  /\ UNCHANGED <<tools, wrap_op, models, requests, calls>>

\* a loop that yields the response it yielded last once more
generate_content_async_next_Repeat(c) ==
  /\ frames[c].kind = "gen" /\ frames[c].pc = "yielded"
  /\ LET n == Len(frames[c].yielded) IN
       frames' = [frames EXCEPT ![c] =
         IF n < Len(@.responses)
         THEN [@ EXCEPT !.yielded = Append(@, frames[c].responses[n])]
         ELSE [@ EXCEPT !.pc = "completed"]]
  /\ UNCHANGED <<tools, wrap_op, models, requests, calls>>

\* a later __anext__: the loop yields the next response or ends
generate_content_async_next(c) ==
  /\ frames[c].kind = "gen" /\ frames[c].pc = "yielded"
  /\ LET n == Len(frames[c].yielded) IN
       frames' = [frames EXCEPT ![c] =
         IF n < Len(@.responses)
         THEN [@ EXCEPT !.yielded = Append(@, frames[c].responses[n + 1])]
         ELSE [@ EXCEPT !.pc = "completed"]]
  /\ UNCHANGED <<tools, wrap_op, models, requests, calls>>

GenNext ==
  \/ \E c \in Callers, m \in ModelIds, r \in RequestIds, stream \in BOOLEAN :
        generate_content_async(c, m, r, stream)
  \/ \E c \in Callers : generate_content_async_start(c)
  \/ \E c \in Callers : generate_content_async_resume(c)
  \/ \E c \in Callers : generate_content_async_next(c)
  \/ \E c \in Callers : execute_activity_returns(c)
  \/ \E c \in Callers : execute_activity_raises(c)

SpecGen == Init /\ [][GenNext /\ UNCHANGED <<regvars, actvars, replayvars>>]_vars

(***************************************************************************)
(* Two callers sharing one capability and one TemporalModel instance       *)
(***************************************************************************)

SharedNext ==
  \/ \E w \in WrapInputs : Len(tools) < MaxTools /\ activity_as_tool(w[1], w[2])
  \/ \E c \in Callers, args \in PositionalInputs :
        Len(tools) >= 1 /\ tool_wrapper(c, 1, args, <<>>)
  \/ \E c \in Callers : tool_wrapper_resume(c)
  \/ \E c \in Callers, r \in RequestIds, stream \in BOOLEAN :
        generate_content_async(c, "m_a", r, stream)
  \/ \E c \in Callers : generate_content_async_start(c)
  \/ \E c \in Callers : generate_content_async_resume(c)
  \/ \E c \in Callers : generate_content_async_next(c)
  \/ \E c \in Callers : execute_activity_returns(c)
  \/ \E c \in Callers : execute_activity_raises(c)

SpecShared == Init /\ [][SharedNext /\ UNCHANGED <<regvars, actvars, replayvars>>]_vars

(***************************************************************************)
(* One caller making generation calls one after another                    *)
(***************************************************************************)

SuccessiveNext ==
  \/ \E m \in ModelIds, r \in RequestIds, stream \in BOOLEAN :
        generate_content_async("c1", m, r, stream)
  \/ generate_content_async_start("c1")
  \/ generate_content_async_resume("c1")
  \/ generate_content_async_next("c1")
  \/ execute_activity_returns("c1")
  \/ execute_activity_raises("c1")

SpecSuccessive ==
  Init /\ [][SuccessiveNext /\ UNCHANGED <<regvars, actvars, replayvars>>]_vars

(***************************************************************************)
(* Claims about activity_as_tool                                           *)
(***************************************************************************)

ToolFrames == {c \in Callers : frames[c].kind = "tool"}
GenFrames == {c \in Callers : frames[c].kind = "gen"}

\* C4: an invocation of a capability with positional arguments only makes
\* exactly one execute_activity call, for the wrapped unit, whose argument
\* list is the positional arguments in order and whose options are those
\* given at wrap time; a capability's unit and options never change.
C4_PositionalForwarding ==
  /\ [](\A c \in ToolFrames :
          frames[c].kwargs = <<>> =>
            /\ Len(calls[c]) = 1
            /\ calls[c][1].activity = tools[frames[c].callee].activity_def
            /\ calls[c][1].args = frames[c].args
            /\ calls[c][1].options = tools[frames[c].callee].activity_options)
  /\ [][\A t \in 1..Len(tools) : tools'[t] = tools[t]]_vars

\* both callers have invoked the one capability, with [v1, v2] and with [v2]
C4_Witness ==
  /\ ToolFrames = Callers
  /\ frames["c1"].callee = frames["c2"].callee
  /\ frames["c1"].kwargs = <<>> /\ frames["c2"].kwargs = <<>>
  /\ frames["c1"].args = <<"v1", "v2">> /\ frames["c1"].pc = "returned"
  /\ calls["c2"][1].args = <<"v2">>

\* C5: each keyword argument's value reaches the unit of work at the position
\* of the parameter of that name in the unit's declared parameter list
\* (stated for calls that bind every parameter once: the first parameters
\* positionally, the others by keyword).
C5_KeywordsMappedByName ==
  \A c \in ToolFrames :
    LET params == Parameters(tools[frames[c].callee].activity_def)
        Pos(i) == CHOOSE k \in 1..Len(params) : params[k] = frames[c].kwargs[i][1]
        bound == Len(frames[c].args)
    IN ( /\ bound + Len(frames[c].kwargs) = Len(params)
         /\ \A i \in 1..Len(frames[c].kwargs) : Pos(i) > bound ) =>
           \A i \in 1..Len(frames[c].kwargs) :
             calls[c][1].args[Pos(i)] = frames[c].kwargs[i][2]

\* C6: a capability call returns what its execute_activity call returned and
\* raises what it raised, and makes that call exactly once.
C6_OutcomeIsChannelOutcome ==
  \A c \in ToolFrames :
    /\ Len(calls[c]) = 1
    /\ frames[c].pc \in {"awaiting", "returned", "raised"}
    /\ frames[c].pc = "awaiting" => frames[c].ret = None /\ frames[c].exc = None
    /\ frames[c].pc = "returned" =>
         /\ calls[c][1].status = "returned"
         /\ frames[c].ret = calls[c][1].outcome /\ frames[c].exc = None
    /\ frames[c].pc = "raised" =>
         /\ calls[c][1].status = "raised"
         /\ frames[c].exc = calls[c][1].outcome /\ frames[c].ret = None
    /\ calls[c][1].status = "returned" => frames[c].pc # "raised"
    /\ calls[c][1].status = "raised" => frames[c].pc # "returned"

\* one capability call has raised the channel's TimeoutError, another has
\* returned the channel's result
C6_Witness ==
  /\ frames["c1"].kind = "tool" /\ frames["c1"].pc = "raised"
  /\ frames["c1"].exc = "TimeoutError"
  /\ frames["c2"].kind = "tool" /\ frames["c2"].pc = "returned"
  /\ frames["c2"].ret = "other_result"

(***************************************************************************)
(* Claims about TemporalModel.generate_content_async                       *)
(***************************************************************************)

\* C7: when execute_activity raises, the generation call fails with that
\* failure, the consumer has observed no response, and no second dispatch
\* is made.
C7_FailurePropagates ==
  \A c \in GenFrames :
    /\ Len(calls[c]) <= 1
    /\ (calls[c] # <<>> /\ calls[c][1].status = "raised") =>
         /\ frames[c].pc \in {"awaiting", "raised"}
         /\ frames[c].yielded = <<>>
         /\ frames[c].pc = "raised" => frames[c].exc = calls[c][1].outcome
    /\ frames[c].pc = "raised" =>
         calls[c] # <<>> /\ calls[c][1].status = "raised"

\* a generation call has failed with the channel's TimeoutError
C7_Witness ==
  \E c \in GenFrames :
    /\ frames[c].pc = "raised" /\ frames[c].exc = "TimeoutError"
    /\ calls[c][1].outcome = "TimeoutError"

\* C8: the request dispatched by generate_content_async carries the
\* instance's model name when the caller's request had no model (None or the
\* empty string), and the caller's own model otherwise.
C8_ModelFilledOnlyWhenUnset ==
  [][\A c \in Callers :
       (frames[c].pc = "created" /\ frames'[c].pc = "awaiting") =>
         LET r == frames[c].request
             sent == calls'[c][1].args[1]
         IN /\ sent.request = r
            /\ requests[r].model \in {None, ""} =>
                 sent.model = models[frames[c].callee].model
            /\ requests[r].model \notin {None, ""} =>
                 sent.model = requests[r].model]_vars

\* "x" was dispatched through the instance named "a", and the unset request
\* was dispatched as "b" through the instance named "b"
C8_Witness ==
  /\ frames["c1"].kind = "gen" /\ frames["c1"].callee = "m_a"
  /\ frames["c1"].request = "r_x" /\ calls["c1"] # <<>>
  /\ calls["c1"][1].args[1].model = "x"
  /\ frames["c2"].kind = "gen" /\ frames["c2"].callee = "m_b"
  /\ frames["c2"].request = "r_unset" /\ calls["c2"] # <<>>
  /\ calls["c2"][1].args[1].model = "b"

\* C9: with the stream flag set or not, a generation call makes one
\* execute_activity call, for the instance's unit of work, with the request as
\* its only argument and the instance's options, and the consumer observes
\* the returned responses, all of them, in the returned order.
C9_OneDispatchFanOut ==
  \A c \in GenFrames :
    /\ Len(calls[c]) = IF frames[c].pc = "created" THEN 0 ELSE 1
    /\ calls[c] # <<>> =>
         /\ calls[c][1].activity = models[frames[c].callee].activity_def
         /\ calls[c][1].options = models[frames[c].callee].activity_options
         /\ Len(calls[c][1].args) = 1
         /\ calls[c][1].args[1].request = frames[c].request
    /\ frames[c].pc = "completed" =>
         /\ calls[c][1].status = "returned"
         /\ frames[c].yielded = calls[c][1].outcome
    /\ frames[c].pc = "yielded" =>
         /\ calls[c][1].status = "returned"
         /\ Len(frames[c].yielded) \in 1..Len(calls[c][1].outcome)
         /\ frames[c].yielded = SubSeq(calls[c][1].outcome, 1, Len(frames[c].yielded))
    /\ (calls[c] # <<>> /\ calls[c][1].status = "returned") =>
         frames[c].pc \in {"awaiting", "yielded", "completed"}

\* a streaming call has delivered [R2, R1, R2] and a non-streaming call
\* [R1, R2], both to the end
C9_Witness ==
  /\ frames["c1"].kind = "gen" /\ frames["c1"].stream
  /\ frames["c1"].pc = "completed" /\ frames["c1"].yielded = <<"R2", "R1", "R2">>
  /\ frames["c2"].kind = "gen" /\ ~frames["c2"].stream
  /\ frames["c2"].pc = "completed" /\ frames["c2"].yielded = <<"R1", "R2">>

\* C10: a generation call whose request has no model, on an instance whose
\* model name is empty, fails with a configuration error and makes no
\* execute_activity call.
C10_EmptyModelFailsWithoutDispatch ==
  \A c \in GenFrames :
    ( /\ frames[c].pc # "created"
      /\ Falsy(models[frames[c].callee].model)
      /\ Falsy(requests[frames[c].request].model) ) =>
        /\ calls[c] = <<>>
        /\ frames[c].pc = "raised"

(***************************************************************************)
(* Claims about generate_content_activity                                  *)
(***************************************************************************)

\* C11: generate_content_activity fails on a request without a model before
\* any backend is resolved and returns nothing; with a model it resolves the
\* backend of that name and returns, once the backend is exhausted, every
\* response the backend produced, in order. It is the unit of work of a
\* TemporalModel made without activity_def and the only entry of
\* default_activities().
C11_DefaultActivity ==
  /\ \A w \in Workers :
       LET run == activity_runs[w] IN
       /\ (run.pc # "idle" /\ run.request_model \in {None, ""}) =>
            /\ run.pc = "raised" /\ run.exc = "ValueError"
            /\ run.llm = None /\ run.ret = None
            /\ run.produced = <<>> /\ run.collected = <<>>
       /\ (run.pc # "idle" /\ run.request_model \notin {None, ""}) =>
            run.llm = run.request_model
       /\ run.pc = "returned" =>
            /\ run.remaining = <<>>
            /\ run.ret = run.produced
            /\ run.exc = None
       /\ run.pc = "raised" => run.ret = None
  /\ default_activities = <<"generate_content_activity">>
  /\ models["m_a"].activity_def = "generate_content_activity"
  /\ models["m_empty"].activity_def = "generate_content_activity"

\* one execution was refused for its empty model while another returned the
\* three responses of backend "x"
C11_Witness ==
  /\ activity_runs["w1"].pc = "raised" /\ activity_runs["w1"].request_model = ""
  /\ activity_runs["w2"].pc = "returned" /\ activity_runs["w2"].llm = "x"
  /\ activity_runs["w2"].ret = <<"R2", "R1", "R2">>

(***************************************************************************)
(* Claims about the metadata of a capability                               *)
(***************************************************************************)

\* C12: a capability's name is the unit's `name` attribute when it has one
\* and the unit's function name otherwise, its description is the unit's
\* docstring and its signature is the unit's signature (its own when the
\* unit's cannot be inspected); two capabilities made from the same unit have
\* the same name, description, annotations and signature.
C12_MetadataFromUnit ==
  /\ \A t \in 1..Len(tools) :
       LET unit == UnitAttrs(tools[t].activity_def) IN
       /\ unit.name # Absent => tools[t].name = unit.name
       /\ unit.name = Absent => tools[t].name = unit.fn_name
       /\ tools[t].doc = unit.doc
       /\ unit.signature # Uninspectable => tools[t].signature = unit.signature
       /\ unit.signature = Uninspectable => tools[t].signature = WrapperSignature
  /\ \A t1, t2 \in 1..Len(tools) :
       tools[t1].activity_def = tools[t2].activity_def =>
         /\ tools[t1].name = tools[t2].name
         /\ tools[t1].doc = tools[t2].doc
         /\ tools[t1].annotations = tools[t2].annotations
         /\ tools[t1].signature = tools[t2].signature

\* fake_activity, which has both a name attribute and a function name, was
\* wrapped twice with the same options
C12_Witness ==
  /\ Len(tools) >= 2
  /\ tools[1].activity_def = "fake_activity" /\ tools[2].activity_def = "fake_activity"
  /\ tools[1].activity_options = tools[2].activity_options
  /\ tools[1].name = "fake_activity_name" /\ tools[2].name = "fake_activity_name"

\* C13: activity_as_tool returns a capability for every callable it is given,
\* whatever metadata the callable lacks.
C13_ConstructionNeverFails ==
  wrap_op.exc = None

(***************************************************************************)
(* Claims about argument order, sharing and the request object             *)
(***************************************************************************)

\* C14: the argument list passed to execute_activity is the positional
\* arguments in the order given followed by the keyword values in the order
\* the keywords were supplied; without keywords it is the positional list.
C14_PositionalThenKeywordValues ==
  \A c \in ToolFrames :
    LET sent == calls[c][1].args
        n == Len(frames[c].args)
    IN /\ Len(sent) = n + Len(frames[c].kwargs)
       /\ \A i \in 1..n : sent[i] = frames[c].args[i]
       /\ \A j \in 1..Len(frames[c].kwargs) : sent[n + j] = frames[c].kwargs[j][2]

\* tool("v1", "v2", b="v2", a="v1") was dispatched as [v1, v2, v2, v1]
C14_Witness ==
  \E c \in ToolFrames :
    /\ frames[c].args = <<"v1", "v2">>
    /\ frames[c].kwargs = <<<<"b", "v2">>, <<"a", "v1">>>>
    /\ calls[c][1].args = <<"v1", "v2", "v2", "v1">>

\* C15: with two invocations of one shared instance in flight at once and
\* answered in any order, each caller observes the result of its own
\* dispatch, in the channel's order, and the instances and capabilities are
\* the same after every step.
C15_NoCrossTalk ==
  /\ [](\A c \in Callers :
          /\ (frames[c].kind = "gen" /\ frames[c].pc \in {"yielded", "completed"}) =>
               /\ calls[c][1].status = "returned"
               /\ frames[c].responses = calls[c][1].outcome
               /\ frames[c].yielded =
                    SubSeq(calls[c][1].outcome, 1, Len(frames[c].yielded))
               /\ frames[c].pc = "completed" =>
                    frames[c].yielded = calls[c][1].outcome
          /\ (frames[c].kind = "tool" /\ frames[c].pc = "returned") =>
               frames[c].ret = calls[c][1].outcome
          /\ frames[c].pc = "raised" =>
               frames[c].exc = calls[c][1].outcome)
  /\ [][ /\ models' = models
         /\ \A t \in 1..Len(tools) : tools'[t] = tools[t] ]_vars

\* both callers are part-way through different response lists of the one
\* instance "m_a"
C15_Witness ==
  /\ frames["c1"].kind = "gen" /\ frames["c2"].kind = "gen"
  /\ frames["c1"].callee = "m_a" /\ frames["c2"].callee = "m_a"
  /\ frames["c1"].pc = "yielded" /\ frames["c2"].pc = "yielded"
  /\ calls["c1"][1].outcome = <<"R1", "R2">>
  /\ calls["c2"][1].outcome = <<"R2", "R1", "R2">>
  /\ frames["c1"].yielded = <<"R1">> /\ frames["c2"].yielded = <<"R2">>

\* C17: the model filled in by generate_content_async is written to the
\* caller's request object and stays there, so a later call on another
\* instance dispatches that model; nothing else of the request, no other
\* request and no instance is changed by a generation call.
C17_FillPersistsOnRequest ==
  /\ [](\A c \in GenFrames :
          (calls[c] # <<>> /\ ~Falsy(calls[c][1].args[1].model)) =>
            requests[frames[c].request].model = calls[c][1].args[1].model)
  /\ [][ /\ models' = models
         /\ \A r \in RequestIds :
              /\ requests'[r].prompt = requests[r].prompt
              /\ ~Falsy(requests[r].model) => requests'[r].model = requests[r].model
         /\ \A c \in Callers :
              (frames[c].pc = "created" /\ frames'[c].pc = "awaiting") =>
                /\ requests'[frames[c].request].model = calls'[c][1].args[1].model
                /\ \A r \in RequestIds \ {frames[c].request} :
                     requests'[r] = requests[r]
         /\ (\A c \in Callers :
               ~(frames[c].pc = "created" /\ frames'[c].pc = "awaiting")) =>
              requests' = requests ]_vars

\* the request created without a model went through instance "a" and was
\* then dispatched by instance "b" with model "a"
C17_Witness ==
  \E c \in GenFrames :
    /\ frames[c].callee = "m_b" /\ frames[c].request = "r_unset"
    /\ calls[c] # <<>> /\ calls[c][1].args[1].model = "a"
    /\ requests["r_unset"].model = "a"

=============================================================================
